---- MODULE Spec2Model ----
(***************************************************************************)
(* PathCompacter: the iterative Ramer-Douglas-Peucker path compacter       *)
(* (compactPath, compactPathSubproblemSolver, the call stack) and the two  *)
(* deviation metrics, as a state machine.                                  *)
(*                                                                         *)
(* Conventions.                                                            *)
(*  - Array indices are the C indices (from 0); element i of an array is   *)
(*    element i+1 of the sequence that holds it.                           *)
(*  - A pointer into a point array is [arr, off]; NULL has arr = "NULL".   *)
(*  - A double is an exact rational [num, den] with den > 0; den = 0       *)
(*    stands for NaN (the only way the metrics divide by zero is 0.0/0.0). *)
(*    On the small integer coordinates used here every product and sum is  *)
(*    exact in double arithmetic and distinct quotients stay distinct, so  *)
(*    comparisons of rationals agree with the comparisons of doubles.      *)
(*  - Every array element carries, besides dX and dY, a history field src: *)
(*    the index of the entry path the value was copied from (-1: never     *)
(*    written).  The code does not have it; it moves with every copy.      *)
(***************************************************************************)
EXTENDS Integers, Sequences, FiniteSets, TLC

\* Longest path handed to compactPath.
MaxLen == 4

\* The work stack's unit, 2048 in the source, scaled down so that a push on a
\* full stack (and so the growth reallocation) happens on paths of MaxLen points.
COMPACT_PATH_CALL_STACK_UNIT == 2

\* Coordinates the paths are drawn from: three collinear points and a point off
\* their line (a point may occur in a path more than once).
PointPool == { <<0, 0>>, <<1, 0>>, <<2, 0>>, <<1, 1>> }

\* Tolerances, in halves: -1/2 (invalid), 0, 1/2, 1, 3/2.
EpsilonHalves == { -1, 0, 1, 2, 3 }

FAILURE == 0
SUCCESS == 1
ENOMEM == 12

-----------------------------------------------------------------------------
(* doubles *)

Rat(n, d) == [num |-> n, den |-> d]

IsNaN(q) == q.den = 0

\* a < b on doubles: false when either side is NaN.
RatLess(a, b) == ~IsNaN(a) /\ ~IsNaN(b) /\ a.num * b.den < b.num * a.den

\* a > b on doubles: false when either side is NaN.
RatGreater(a, b) == RatLess(b, a)

RatMul(a, b) == Rat(a.num * b.num, a.den * b.den)

-----------------------------------------------------------------------------
(* pointers and point arrays *)

NULL == [arr |-> "NULL", off |-> 0]

Ptr(a, o) == [arr |-> a, off |-> o]

PtrAdd(p, k) == [p EXCEPT !.off = @ + k]

\* p[i]
Load(m, p, i) == m[p.arr][p.off + i + 1]

\* p[i] = v
Store(m, p, i, v) == [m EXCEPT ![p.arr][p.off + i + 1] = v]

\* The elements p[0 .. cnt-1] as a sequence.
LoadRange(m, p, cnt) == [k \in 1..cnt |-> Load(m, p, k - 1)]

RECURSIVE StoreRange(_, _, _)
\* dst[0 .. Len(vals)-1] = vals
StoreRange(m, dst, vals) ==
    IF vals = << >> THEN m
    ELSE StoreRange(Store(m, dst, Len(vals) - 1, vals[Len(vals)]),
                    dst, SubSeq(vals, 1, Len(vals) - 1))

\* memcpy and memmove of cnt >= 0 elements.  memmove reads the whole source
\* before it writes; the solver's memcpy is only ever called with regions that
\* are disjoint or identical, where it does the same.
memmove(m, dst, src, cnt) == StoreRange(m, dst, LoadRange(m, src, cnt))

memcpy(m, dst, src, cnt) == StoreRange(m, dst, LoadRange(m, src, cnt))

\* The indices p[0 .. cnt-1] touches.
Indices(p, cnt) == { p.off + k : k \in 0..(cnt - 1) }

-----------------------------------------------------------------------------
(* DeviationMetrics.c *)

\* Twice the signed area of the triangle start, end, mid.
TwiceArea(start, end, mid) ==
    start.dX * (mid.dY - end.dY) + mid.dX * (end.dY - start.dY)
        + end.dX * (start.dY - mid.dY)

\* dArea = 0.5 * TwiceArea; dArea * dArea / dSquareSegmentLength.
perpendicularDistance(start, end, mid, dSquareSegmentLength) ==
    Rat(TwiceArea(start, end, mid) * TwiceArea(start, end, mid),
        4 * dSquareSegmentLength)

\* dAdotB: the dot product of A = end - start and B = mid - start.
DotAB(start, end, mid) ==
    (end.dX - start.dX) * (mid.dX - start.dX)
        + (end.dY - start.dY) * (mid.dY - start.dY)

\* dBdotC: the dot product of B = mid - start and C = mid - end.
DotBC(start, end, mid) ==
    (mid.dX - start.dX) * (mid.dX - end.dX)
        + (mid.dY - start.dY) * (mid.dY - end.dY)

\* if (dAdotB > 0.0 && dBdotC < 0.0)
NotAnEndpoint(dAdotB, dBdotC) == dAdotB > 0 /\ dBdotC < 0

\* Mutant of CloserToStart: the second test turned around.
CloserToStartBehindStart(dAdotB, dBdotC) == dAdotB < 0 /\ dBdotC > 0

\* if (dAdotB < 0.0 && dBdotC < 0.0)
CloserToStart(dAdotB, dBdotC) == dAdotB < 0 /\ dBdotC < 0

\* The return statement shortestDistanceToSegment leaves through.
shortestDistanceBranch(start, end, mid) ==
    IF NotAnEndpoint(DotAB(start, end, mid), DotBC(start, end, mid))
    THEN "perpendicular"
    ELSE IF CloserToStart(DotAB(start, end, mid), DotBC(start, end, mid))
         THEN "start"
         ELSE "end"

shortestDistanceToSegment(start, end, mid, dSquareSegmentLength) ==
    LET dAX == end.dX - start.dX
        dAY == end.dY - start.dY
        dCX == mid.dX - end.dX
        dCY == mid.dY - end.dY
        branch == shortestDistanceBranch(start, end, mid)
    IN  IF branch = "perpendicular"
        THEN Rat(TwiceArea(start, end, mid) * TwiceArea(start, end, mid),
                 4 * dSquareSegmentLength)
        ELSE IF branch = "start"
             THEN Rat(dAX * dAX + dAY * dAY, 1)
             ELSE Rat(dCX * dCX + dCY * dCY, 1)

\* A call through the DeviationMetric function pointer.
CallMetric(deviationMetric, start, end, mid, len) ==
    IF deviationMetric = "perpendicularDistance"
    THEN perpendicularDistance(start, end, mid, len)
    ELSE shortestDistanceToSegment(start, end, mid, len)

\* The record of one call of the metric: its arguments, the return statement
\* it left through and the value it returned.
MetricCall(deviationMetric, start, end, mid, len) ==
    [metric |-> deviationMetric,
     start |-> << start.dX, start.dY >>,
     end |-> << end.dX, end.dY >>,
     mid |-> << mid.dX, mid.dY >>,
     dSquareSegmentLength |-> len,
     branch |-> IF deviationMetric = "perpendicularDistance" THEN "perpendicular"
                ELSE shortestDistanceBranch(start, end, mid),
     value |-> CallMetric(deviationMetric, start, end, mid, len)]

-----------------------------------------------------------------------------
(* compactPathSubproblemSolver *)

\* The running maximum before the scan: dMaxSquareDeviationInThisSegment = 0.0
\* and iMaxPointIndex declared but not assigned.
ScanStart == [dMax |-> Rat(0, 1), iMaxPointIndex |-> 0, assigned |-> FALSE]

\* Mutant of NewMaximum: >= in place of >, so that of equal deviations the last
\* one is kept.
NewMaximumInclusive(dSquareDeviation, dMax) ==
    ~IsNaN(dSquareDeviation) /\ ~RatLess(dSquareDeviation, dMax)

\* if (dSquareDeviation > dMaxSquareDeviationInThisSegment)
NewMaximum(dSquareDeviation, dMax) == RatGreater(dSquareDeviation, dMax)

RECURSIVE ScanInterior(_, _, _, _, _, _, _)
\* for (i = ...; i < uPointsInCurrentPath - 1; ++i)
ScanInterior(m, p, L, dSquareSegLen, deviationMetric, i, acc) ==
    IF ~(i < L - 1) THEN acc
    ELSE LET dSquareDeviation ==
                 CallMetric(deviationMetric, Load(m, p, 0), Load(m, p, L - 1),
                            Load(m, p, i), dSquareSegLen)
         IN  ScanInterior(m, p, L, dSquareSegLen, deviationMetric, i + 1,
                 IF NewMaximum(dSquareDeviation, acc.dMax)
                 THEN [dMax |-> dSquareDeviation, iMaxPointIndex |-> i,
                       assigned |-> TRUE]
                 ELSE acc)

\* The calls of the metric the scan makes.
ScanCalls(m, p, L, dSquareSegLen, deviationMetric) ==
    { MetricCall(deviationMetric, Load(m, p, 0), Load(m, p, L - 1), Load(m, p, i),
                 dSquareSegLen) : i \in 1..(L - 2) }

\* Mutant of Linearizable: the comparison turned around.
LinearizableReversed(dMax, dEps) == RatLess(RatMul(dEps, dEps), dMax)

\* Mutant of Linearizable: <= in place of <.
LinearizableInclusive(dMax, dEps) == ~RatLess(RatMul(dEps, dEps), dMax)

\* if (dMaxSquareDeviationInThisSegment < dEpsilon * dEpsilon)
Linearizable(dMax, dEps) == RatLess(dMax, RatMul(dEps, dEps))

\* Mutant of LinearizeWrite: the second point taken one element too early.
LinearizeWriteOffByOne(m, pPts, L, pRes) ==
    LET m1 == Store(m, pRes, 0, Load(m, pPts, 0))
    IN  Store(m1, pRes, 1, Load(m1, pPts, L - 2))

\* pResultPointArray[0] = pPointArray[0];
\* pResultPointArray[1] = pPointArray[uPointsInCurrentPath - 1];
LinearizeWrite(m, pPts, L, pRes) ==
    LET m1 == Store(m, pRes, 0, Load(m, pPts, 0))
    IN  Store(m1, pRes, 1, Load(m1, pPts, L - 1))

\* The solver's outcome on the subproblem pPts[0 .. L-1] with scratch space pRes:
\* its result code, the memory it leaves, *puPointsInResultPath, iMaxPointIndex
\* (assigned = FALSE: the variable was never assigned), and the indices and bulk
\* copy lengths it used.  code "CRASH": the call through a null metric pointer.
compactPathSubproblemSolver(m, pPts, L, pRes, dEps, deviationMetric) ==
    IF L < 3
    THEN [code |-> "SOLVED",
          mem |-> IF L > 0 THEN memcpy(m, pRes, pPts, L) ELSE m,
          uPointsInResultPath |-> L,
          iMaxPointIndex |-> 0, assigned |-> FALSE,
          touched |-> IF L > 0 THEN Indices(pPts, L) \cup Indices(pRes, L) ELSE {},
          bulk |-> IF L > 0 THEN {L} ELSE {},
          calls |-> {}]
    ELSE IF deviationMetric = "NULL"
    THEN [code |-> "CRASH", mem |-> m, uPointsInResultPath |-> 0,
          iMaxPointIndex |-> 0, assigned |-> FALSE,
          touched |-> Indices(pPts, L), bulk |-> {}, calls |-> {}]
    ELSE LET dDX == Load(m, pPts, L - 1).dX - Load(m, pPts, 0).dX
             dDY == Load(m, pPts, L - 1).dY - Load(m, pPts, 0).dY
             dSquareSegLen == dDX * dDX + dDY * dDY
             scan == ScanInterior(m, pPts, L, dSquareSegLen, deviationMetric, 1,
                                  ScanStart)
             calls == ScanCalls(m, pPts, L, dSquareSegLen, deviationMetric)
         IN  IF Linearizable(scan.dMax, dEps)
             THEN [code |-> "LINEARIZE",
                   mem |-> LinearizeWrite(m, pPts, L, pRes),
                   uPointsInResultPath |-> 2,
                   iMaxPointIndex |-> scan.iMaxPointIndex,
                   assigned |-> scan.assigned,
                   touched |-> Indices(pPts, L) \cup Indices(pRes, 2),
                   bulk |-> {}, calls |-> calls]
             ELSE [code |-> "DIVIDE", mem |-> m, uPointsInResultPath |-> 0,
                   iMaxPointIndex |-> scan.iMaxPointIndex,
                   assigned |-> scan.assigned,
                   touched |-> Indices(pPts, L), bulk |-> {}, calls |-> calls]

-----------------------------------------------------------------------------
(* the call stack and the allocator *)

\* The stack as compactPath holds it: pCallStackBase (a block of the heap, 0 for
\* a null pointer), its capacity and entry count, the entries, and the
\* allocator: heap maps each allocated block to the entries it has room for,
\* nAllocated counts the blocks handed out, freed lists the blocks released.

\* Mutant of AllocationFailed: the result of the allocation is not checked.
AllocationFailedUnchecked(err, base) == FALSE

\* if (errno || *ppCallStackBase == NULL)
AllocationFailed(err, base) == err # 0 \/ base = 0

\* malloc of n entries.
Malloc(s, n, ok) ==
    IF ok
    THEN [s EXCEPT !.pCallStackBase = s.nAllocated + 1,
                   !.nAllocated = @ + 1,
                   !.heap = (s.nAllocated + 1 :> n) @@ @]
    ELSE [s EXCEPT !.pCallStackBase = 0, !.errno = ENOMEM]

\* *ppCallStackBase = realloc(*ppCallStackBase, n entries): on success the old
\* block is released and a block of n entries returned; on failure the result
\* is a null pointer and the old block stays allocated.
Realloc(s, n, ok) ==
    IF ok
    THEN [s EXCEPT !.pCallStackBase = s.nAllocated + 1,
                   !.nAllocated = @ + 1,
                   !.heap = [b \in (DOMAIN @ \ {s.pCallStackBase})
                                 \cup {s.nAllocated + 1} |->
                             IF b = s.nAllocated + 1 THEN n ELSE @[b]],
                   !.freed = Append(@, s.pCallStackBase)]
    ELSE [s EXCEPT !.pCallStackBase = 0, !.errno = ENOMEM]

\* free(pCallStackBase): nothing for a null pointer.
Free(s) ==
    IF s.pCallStackBase = 0 THEN s
    ELSE [s EXCEPT !.heap = [b \in DOMAIN @ \ {s.pCallStackBase} |-> @[b]],
                   !.freed = Append(@, s.pCallStackBase)]

\* Mutant of StackFull: the stack taken for full one entry too late.
StackFullOneLate(iNumCalls, iCapacity) == iNumCalls > iCapacity

\* if (*piNumCallsInStack >= *piCallStackCapacity)
StackFull(iNumCalls, iCapacity) == iNumCalls >= iCapacity

\* compactPathCallStackPush; .ok is its return value.
compactPathCallStackPush(s, call, reallocOk) ==
    LET grown == IF StackFull(s.iNumCallsInStack, s.iCallStackCapacity)
                 THEN Realloc([s EXCEPT !.iCallStackCapacity =
                                             @ + COMPACT_PATH_CALL_STACK_UNIT],
                              s.iCallStackCapacity + COMPACT_PATH_CALL_STACK_UNIT,
                              reallocOk)
                 ELSE s
    IN  IF StackFull(s.iNumCallsInStack, s.iCallStackCapacity)
           /\ AllocationFailed(grown.errno, grown.pCallStackBase)
        THEN [grown EXCEPT !.ok = FALSE]
        ELSE [grown EXCEPT !.callStack = Append(@, call),
                           !.iNumCallsInStack = @ + 1,
                           !.ok = TRUE]

\* compactPathCallStackPop; .popped is *pPoppedCall.
compactPathCallStackPop(s) ==
    IF s.iNumCallsInStack > 0
    THEN [s EXCEPT !.iNumCallsInStack = @ - 1,
                   !.callStack = SubSeq(@, 1, s.iNumCallsInStack - 1),
                   !.popped = s.callStack[s.iNumCallsInStack],
                   !.ok = TRUE]
    ELSE [s EXCEPT !.ok = FALSE]

-----------------------------------------------------------------------------
(* state *)

VARIABLES
    mem,                  \* the caller's arrays: mem.path, mem.out
    entryPath,            \* history: the points of the path at the first call's entry
    pPointArray,          \* the arguments of the call in progress
    uPointsInCurrentPath,
    pResultPointArray,
    puPointsInResultPath, \* "count": points to pointsInResultPath; "NULL"
    dEpsilon,
    deviationMetric,      \* "perpendicularDistance", "shortestDistanceToSegment", "NULL"
    pointsInResultPath,   \* the caller's variable that puPointsInResultPath points to
    separateCount,        \* the caller's copy of the count of the call with a separate array
    phase,                \* which of the caller's calls this is: "first", "inPlace",
                          \* "onResult", "largerTolerance"
    current,              \* compactPath's locals
    iDivisionIndex,
    subproblemResultCode,
    iNumSolvedPoints,
    callStack,
    iCallStackCapacity,
    iNumCallsInStack,
    pCallStackBase,
    heap,                 \* the allocator
    nAllocated,
    freed,
    errno,
    pc,                   \* "entry", "loop", "returned", "crashed"
    ret,                  \* the value returned; "none" before the return
    touched,              \* history: the element indices the last step read or wrote
    bulk,                 \* history: the lengths of the last step's memcpy and memmove calls
    metricCalls,          \* history: the metric calls of the last run of the solver
    nSolverCalls          \* history: the runs of the solver in this call so far

args == << pPointArray, uPointsInCurrentPath, puPointsInResultPath, dEpsilon,
           deviationMetric >>

stackVars == << callStack, iCallStackCapacity, iNumCallsInStack, pCallStackBase,
                heap, nAllocated, freed, errno >>

locals == << current, iDivisionIndex, subproblemResultCode, iNumSolvedPoints >>

vars == << mem, entryPath, args, pResultPointArray, pointsInResultPath,
           separateCount, phase, locals, stackVars, pc, ret, touched, bulk,
           metricCalls, nSolverCalls >>

\* A struct CompactPathSubproblemCall.
Call(pPts, pRes, n) ==
    [pPointArray |-> pPts, pResultPointArray |-> pRes, uPointsInCurrentPath |-> n]

NoCall == Call(NULL, NULL, 0)

\* The stack and the allocator as one record, for the operators above.
StackState ==
    [pCallStackBase |-> pCallStackBase, iCallStackCapacity |-> iCallStackCapacity,
     iNumCallsInStack |-> iNumCallsInStack, callStack |-> callStack,
     heap |-> heap, nAllocated |-> nAllocated, freed |-> freed, errno |-> errno,
     ok |-> TRUE, popped |-> NoCall]

SetStack(s) ==
    /\ pCallStackBase' = s.pCallStackBase
    /\ iCallStackCapacity' = s.iCallStackCapacity
    /\ iNumCallsInStack' = s.iNumCallsInStack
    /\ callStack' = s.callStack
    /\ heap' = s.heap
    /\ nAllocated' = s.nAllocated
    /\ freed' = s.freed
    /\ errno' = s.errno

\* COMPACT_PATH_RETURN(iReturnValue): free(pCallStackBase); return iReturnValue;
COMPACT_PATH_RETURN(s, iReturnValue) ==
    /\ SetStack(Free(s))
    /\ pc' = "returned"
    /\ ret' = iReturnValue

\* The process dies (a null or wild access, a copy of a wrapped-around length).
Crash(s) ==
    /\ SetStack(s)
    /\ pc' = "crashed"
    /\ ret' = "none"

-----------------------------------------------------------------------------
(* the calls *)

Point(xy, i) == [dX |-> xy[1], dY |-> xy[2], src |-> i]

\* What an element of the result array holds before anything is written to it.
Junk == [dX |-> -1, dY |-> -1, src |-> -1]

\* What the caller's count variable holds before a call: no count of a path.
StaleCount == MaxLen + 3

Paths == UNION { [1..n -> PointPool] : n \in 0..MaxLen }

Metrics == { "perpendicularDistance", "shortestDistanceToSegment" }

\* What a call gets wrong, besides a negative tolerance: nothing, a negative
\* length, or one null argument.
Defects == { "none", "length", "pPointArray", "pResultPointArray",
             "puPointsInResultPath", "deviationMetric" }

\* The calls with a defect are tried on paths of up to 3 points with tolerance 1/2.
MaxLenDefect == 3

Init ==
    \E path \in Paths, e \in EpsilonHalves, metric \in Metrics, defect \in Defects :
        /\ defect # "none" => Len(path) <= MaxLenDefect /\ e = 1
        /\ defect = "deviationMetric" => metric = "perpendicularDistance"
        /\ mem = [path |-> [i \in 1..Len(path) |-> Point(path[i], i - 1)],
                  out  |-> [i \in 1..Len(path) |-> Junk]]
        /\ entryPath = [i \in 1..Len(path) |-> Point(path[i], i - 1)]
        /\ pPointArray = IF defect = "pPointArray" THEN NULL ELSE Ptr("path", 0)
        /\ pResultPointArray =
               IF defect = "pResultPointArray" THEN NULL ELSE Ptr("out", 0)
        /\ uPointsInCurrentPath = IF defect = "length" THEN -1 ELSE Len(path)
        /\ puPointsInResultPath =
               IF defect = "puPointsInResultPath" THEN "NULL" ELSE "count"
        /\ dEpsilon = Rat(e, 2)
        /\ deviationMetric = IF defect = "deviationMetric" THEN "NULL" ELSE metric
        /\ pointsInResultPath = StaleCount
        /\ separateCount = StaleCount
        /\ phase = "first"
        /\ current = NoCall
        /\ iDivisionIndex = 0
        /\ subproblemResultCode = "none"
        /\ iNumSolvedPoints = 0
        /\ callStack = << >>
        /\ iCallStackCapacity = 0
        /\ iNumCallsInStack = 0
        /\ pCallStackBase = 0
        /\ heap = << >>
        /\ nAllocated = 0
        /\ freed = << >>
        /\ errno = 0
        /\ pc = "entry"
        /\ ret = "none"
        /\ touched = {}
        /\ bulk = {}
        /\ metricCalls = {}
        /\ nSolverCalls = 0

-----------------------------------------------------------------------------
(* compactPath *)

\* What an unassigned iMaxPointIndex may hold when the solver reports it.
GarbageIndex == (-1)..MaxLen

\* The loop is followed while the stack holds at most this many calls (a path of
\* n points needs n - 1; an unassigned split index can ask for any number).
MaxPending == MaxLen

\* if (iDivisionIndex <= 0 || iDivisionIndex >= current.uPointsInCurrentPath)
SplitRejected(idx, L) == idx <= 0 \/ idx >= L

\* Mutant of SecondSubproblem: the right half starts after the split point.
SecondSubproblemAfterSplit(cur, idx) ==
    Call(PtrAdd(cur.pPointArray, idx + 1), PtrAdd(cur.pResultPointArray, idx + 1),
         cur.uPointsInCurrentPath - idx - 1)

SecondSubproblem(cur, idx) ==
    Call(PtrAdd(cur.pPointArray, idx), PtrAdd(cur.pResultPointArray, idx),
         cur.uPointsInCurrentPath - idx)

FirstSubproblem(cur, idx) ==
    Call(cur.pPointArray, cur.pResultPointArray, idx + 1)

\* Mutant of PushOrder: the left half pushed first, so popped last.
PushOrderLeftFirst(cur, idx) ==
    << FirstSubproblem(cur, idx), SecondSubproblem(cur, idx) >>

\* The two subproblems of a split, in the order they are pushed.
PushOrder(cur, idx) == << SecondSubproblem(cur, idx), FirstSubproblem(cur, idx) >>

\* Mutant of ResolvedSpan: the first point of the subproblem is copied too.
ResolvedSpanWithFirstPoint(cur, uPointsInResultPath) ==
    [src |-> cur.pResultPointArray, cnt |-> uPointsInResultPath]

\* ++current.pResultPointArray; --uPointsInResultPath;
\* the source and the element count of the memmove that follows.
ResolvedSpan(cur, uPointsInResultPath) ==
    [src |-> PtrAdd(cur.pResultPointArray, 1), cnt |-> uPointsInResultPath - 1]

\* The outcomes of reading and writing element 0 of arrays that have no element:
\* the process dies, or the access lands in memory nobody looks at.
WildAccessOutcomes == {"crash", "silent"}

\* The code before the loop: the first point's copy, the stack's allocation, the
\* push of the whole problem.
compactPathEntry ==
    /\ pc = "entry"
    /\ \E mallocOk \in BOOLEAN, wild \in WildAccessOutcomes :
        LET s0 == [StackState EXCEPT !.errno = 0]
            null == pPointArray = NULL \/ pResultPointArray = NULL
            inBounds == /\ ~null
                        /\ Len(mem[pPointArray.arr]) >= 1
                        /\ Len(mem[pResultPointArray.arr]) >= 1
            s1 == Malloc([s0 EXCEPT !.iCallStackCapacity = COMPACT_PATH_CALL_STACK_UNIT,
                                    !.iNumCallsInStack = 0,
                                    !.callStack = << >>],
                         COMPACT_PATH_CALL_STACK_UNIT, mallocOk)
            whole == Call(pPointArray, pResultPointArray, uPointsInCurrentPath)
            s2 == compactPathCallStackPush(s1, whole, TRUE)
        IN  /\ touched' = {0}
            /\ bulk' = {}
            /\ UNCHANGED << entryPath, args, pResultPointArray, pointsInResultPath,
                            separateCount, phase, iDivisionIndex,
                            subproblemResultCode, metricCalls, nSolverCalls >>
            /\ IF null \/ (~inBounds /\ wild = "crash")
               THEN \* *pResultPointArray = *pPointArray through a null pointer,
                    \* or on arrays of no element
                    /\ Crash(s0)
                    /\ UNCHANGED << mem, current, iNumSolvedPoints >>
               ELSE /\ mem' = IF inBounds
                              THEN Store(mem, pResultPointArray, 0,
                                         Load(mem, pPointArray, 0))
                              ELSE mem
                    /\ iNumSolvedPoints' = 1
                    /\ IF AllocationFailed(s1.errno, s1.pCallStackBase)
                       THEN /\ COMPACT_PATH_RETURN(s1, FAILURE)
                            /\ UNCHANGED current
                       ELSE /\ current' = whole
                            /\ IF ~s2.ok
                               THEN COMPACT_PATH_RETURN(s2, FAILURE)
                               ELSE /\ SetStack(s2)
                                    /\ pc' = "loop"
                                    /\ ret' = "none"

\* The values an unassigned variable may be read as; the one value of an
\* assigned one.
ReadIndex(assigned, value) == IF assigned THEN {value} ELSE GarbageIndex

\* The outcomes of realloc when the push of one more call has to grow the
\* stack; the push does not call it otherwise.
ReallocOutcomes(s) ==
    IF StackFull(s.iNumCallsInStack, s.iCallStackCapacity) THEN BOOLEAN ELSE {TRUE}

\* The outcomes of memmove: of a negative element count, which wraps around to a
\* length no array has, the process dies or (source and destination being the
\* same address) nothing is copied.
MemmoveOutcomes(cnt) == IF cnt < 0 THEN {"crash", "silent"} ELSE {"copy"}

\* One iteration of while (iNumCallsInStack > 0).
compactPathLoop ==
    /\ pc = "loop"
    /\ iNumCallsInStack > 0
    /\ LET s1 == compactPathCallStackPop(StackState)
           cur == s1.popped
           sol == compactPathSubproblemSolver(mem, cur.pPointArray,
                      cur.uPointsInCurrentPath, cur.pResultPointArray,
                      dEpsilon, deviationMetric)
           span == ResolvedSpan(cur, sol.uPointsInResultPath)
           skipped == [cur EXCEPT !.pResultPointArray = span.src]
           cnt == span.cnt
           dst == PtrAdd(pResultPointArray, iNumSolvedPoints)
       IN  /\ UNCHANGED << entryPath, args, pResultPointArray, pointsInResultPath,
                           separateCount, phase >>
           /\ metricCalls' = IF s1.ok THEN sol.calls ELSE metricCalls
           /\ nSolverCalls' = IF s1.ok THEN nSolverCalls + 1 ELSE nSolverCalls
           /\ IF ~s1.ok
              THEN /\ COMPACT_PATH_RETURN(s1, FAILURE)
                   /\ UNCHANGED << mem, locals, touched, bulk >>
              ELSE IF sol.code = "CRASH"
              THEN /\ Crash(s1)
                   /\ current' = cur
                   /\ touched' = sol.touched
                   /\ bulk' = sol.bulk
                   /\ UNCHANGED << mem, iDivisionIndex, subproblemResultCode,
                                   iNumSolvedPoints >>
              ELSE IF sol.code = "DIVIDE"
              THEN \E idx \in ReadIndex(sol.assigned, sol.iMaxPointIndex) :
                   /\ subproblemResultCode' = sol.code
                   /\ iDivisionIndex' = idx
                   /\ current' = cur
                   /\ mem' = sol.mem
                   /\ touched' = sol.touched
                   /\ bulk' = sol.bulk
                   /\ UNCHANGED iNumSolvedPoints
                   /\ IF SplitRejected(idx, cur.uPointsInCurrentPath)
                      THEN COMPACT_PATH_RETURN(s1, FAILURE)
                      ELSE \E reallocOk2 \in ReallocOutcomes(s1) :
                           LET s2 == compactPathCallStackPush(s1,
                                         PushOrder(cur, idx)[1], reallocOk2)
                           IN  IF ~s2.ok
                               THEN COMPACT_PATH_RETURN(s2, FAILURE)
                               ELSE \E reallocOk1 \in ReallocOutcomes(s2) :
                                    LET s3 == compactPathCallStackPush(s2,
                                                  PushOrder(cur, idx)[2],
                                                  reallocOk1)
                                    IN  IF ~s3.ok
                                        THEN COMPACT_PATH_RETURN(s3, FAILURE)
                                        ELSE /\ s3.iNumCallsInStack <= MaxPending
                                             /\ SetStack(s3)
                                             /\ pc' = "loop"
                                             /\ ret' = "none"
              ELSE \* LINEARIZE or SOLVED
                   \E outcome \in MemmoveOutcomes(cnt) :
                   /\ subproblemResultCode' = sol.code
                   /\ current' = skipped
                   /\ touched' = sol.touched \cup Indices(dst, cnt)
                                     \cup Indices(skipped.pResultPointArray, cnt)
                   /\ bulk' = sol.bulk \cup {cnt}
                   /\ UNCHANGED iDivisionIndex
                   /\ IF outcome = "crash"
                      THEN /\ Crash(s1)
                           /\ mem' = sol.mem
                           /\ UNCHANGED iNumSolvedPoints
                      ELSE /\ mem' = IF outcome = "silent" THEN sol.mem
                                     ELSE memmove(sol.mem, dst,
                                                  skipped.pResultPointArray, cnt)
                           /\ iNumSolvedPoints' = iNumSolvedPoints + cnt
                           /\ SetStack(s1)
                           /\ pc' = "loop"
                           /\ ret' = "none"

\* Mutant of compactPathReturn: the count is written and failure returned.
compactPathReturnFailure ==
    /\ pc = "loop"
    /\ iNumCallsInStack = 0
    /\ touched' = {}
    /\ bulk' = {}
    /\ UNCHANGED << mem, entryPath, args, pResultPointArray, separateCount, phase,
                    locals, metricCalls, nSolverCalls >>
    /\ pointsInResultPath' = iNumSolvedPoints
    /\ COMPACT_PATH_RETURN(StackState, FAILURE)

\* The code after the loop.
compactPathReturn ==
    /\ pc = "loop"
    /\ iNumCallsInStack = 0
    /\ touched' = {}
    /\ bulk' = {}
    /\ UNCHANGED << mem, entryPath, args, pResultPointArray, separateCount, phase,
                    locals, metricCalls, nSolverCalls >>
    /\ IF puPointsInResultPath = "NULL"
       THEN /\ Crash(StackState)
            /\ UNCHANGED pointsInResultPath
       ELSE /\ pointsInResultPath' = iNumSolvedPoints
            /\ COMPACT_PATH_RETURN(StackState, SUCCESS)

\* compactPath's locals, the stack and the allocator as a new call finds them.
FreshCall ==
    /\ pointsInResultPath' = StaleCount
    /\ current' = NoCall
    /\ iDivisionIndex' = 0
    /\ subproblemResultCode' = "none"
    /\ iNumSolvedPoints' = 0
    /\ callStack' = << >>
    /\ iCallStackCapacity' = 0
    /\ iNumCallsInStack' = 0
    /\ pCallStackBase' = 0
    /\ heap' = << >>
    /\ nAllocated' = 0
    /\ freed' = << >>
    /\ errno' = 0
    /\ pc' = "entry"
    /\ ret' = "none"
    /\ touched' = {}
    /\ bulk' = {}
    /\ metricCalls' = {}
    /\ nSolverCalls' = 0

\* The caller, after a successful call with a separate result array, keeps that
\* call's count (its points stay in mem.out) and calls compactPath again with the
\* same arguments and the path itself as the result array.
CallInPlace ==
    /\ pc = "returned"
    /\ ret = SUCCESS
    /\ phase = "first"
    /\ pResultPointArray # pPointArray
    /\ pResultPointArray' = pPointArray
    /\ separateCount' = pointsInResultPath
    /\ phase' = "inPlace"
    /\ FreshCall
    /\ UNCHANGED << mem, entryPath, args >>

\* The caller, after a successful first call, hands the result (its count points)
\* to compactPath as the path of a new call, with the same tolerance and metric
\* and a result array of its own.  entryPath becomes the path of the new call.
CallOnResult ==
    /\ pc = "returned"
    /\ ret = SUCCESS
    /\ phase = "first"
    /\ pointsInResultPath \in 0..Len(mem.out)
    /\ LET result == [k \in 1..pointsInResultPath |->
                         [mem.out[k] EXCEPT !.src = k - 1]]
       IN  /\ mem' = [path |-> result, out |-> [k \in 1..pointsInResultPath |-> Junk]]
           /\ entryPath' = result
    /\ uPointsInCurrentPath' = pointsInResultPath
    /\ separateCount' = pointsInResultPath
    /\ phase' = "onResult"
    /\ FreshCall
    /\ UNCHANGED << pPointArray, pResultPointArray, puPointsInResultPath, dEpsilon,
                    deviationMetric >>

\* The caller, after a successful first call with a tolerance >= 0, keeps its
\* count and calls compactPath on the same path with a tolerance that is no
\* smaller.
CallWithLargerTolerance ==
    /\ pc = "returned"
    /\ ret = SUCCESS
    /\ phase = "first"
    /\ dEpsilon.num >= 0
    /\ \E e \in EpsilonHalves :
           /\ e >= dEpsilon.num
           /\ dEpsilon' = Rat(e, 2)
    /\ mem' = [mem EXCEPT !.out = [k \in 1..Len(mem.out) |-> Junk]]
    /\ separateCount' = pointsInResultPath
    /\ phase' = "largerTolerance"
    /\ FreshCall
    /\ UNCHANGED << entryPath, pPointArray, uPointsInCurrentPath, pResultPointArray,
                    puPointsInResultPath, deviationMetric >>

Next ==
    \/ compactPathEntry
    \/ compactPathLoop
    \/ compactPathReturn
    \/ CallInPlace
    \/ CallOnResult
    \/ CallWithLargerTolerance

Spec == Init /\ [][Next]_vars

-----------------------------------------------------------------------------
(* vocabulary of the properties *)

XY(c) == << c.dX, c.dY >>

\* The coordinates of the elements of a sequence of array elements.
Coordinates(q) == [k \in 1..Len(q) |-> XY(q[k])]

Returned == pc = "returned"

Succeeded == pc = "returned" /\ ret = SUCCESS

InPlace == pResultPointArray = pPointArray

\* Every pointer argument points to something.
ValidReferences ==
    /\ pPointArray # NULL
    /\ pResultPointArray # NULL
    /\ puPointsInResultPath # "NULL"
    /\ deviationMetric # "NULL"

ToleranceValid == dEpsilon.num >= 0

\* The result array's first pointsInResultPath elements (after a success).
ResultPoints == SubSeq(mem[pResultPointArray.arr], 1, pointsInResultPath)

\* The indices of the entry path that the result's points were copied from.
RetainedIndices == { ResultPoints[k].src : k \in 1..Len(ResultPoints) }

Min(a, b) == IF a <= b THEN a ELSE b

-----------------------------------------------------------------------------
(* properties *)

\* C1: after every successful call on n >= 1 points with a tolerance >= 0, the
\* first result point is input[0] and the last result point, at index count-1,
\* is input[n-1].
C1_EndpointsKept ==
    (Succeeded /\ uPointsInCurrentPath >= 1 /\ ToleranceValid) =>
        /\ pointsInResultPath >= 1
        /\ XY(ResultPoints[1]) = XY(entryPath[1])
        /\ XY(ResultPoints[pointsInResultPath]) = XY(entryPath[uPointsInCurrentPath])

\* C1's case: a successful call that removed points of a path of 4 or more
\* points whose end points differ.
C1_Witness ==
    /\ Succeeded /\ ToleranceValid
    /\ uPointsInCurrentPath >= 4
    /\ pointsInResultPath < uPointsInCurrentPath
    /\ XY(entryPath[1]) # XY(entryPath[uPointsInCurrentPath])
    /\ XY(ResultPoints[pointsInResultPath]) = XY(entryPath[uPointsInCurrentPath])

\* C2: after every successful call on n >= 0 points the count written satisfies
\* min(2, n) <= count <= n.
C2_CountBounds ==
    (Succeeded /\ uPointsInCurrentPath >= 0) =>
        /\ Min(2, uPointsInCurrentPath) <= pointsInResultPath
        /\ pointsInResultPath <= uPointsInCurrentPath

\* C2's case: a path of 4 points cut down, after a split or at once, to the
\* lower bound of 2 points.
C2_Witness ==
    /\ Succeeded /\ ValidReferences /\ ToleranceValid
    /\ uPointsInCurrentPath = 4
    /\ pointsInResultPath = 2
    /\ subproblemResultCode = "LINEARIZE"

\* C3: on a path of n < 3 points, with a tolerance >= 0, valid arguments and no
\* allocation failure, the call ends in success with count = n and the result
\* equal to the input.
C3_ShortPathsUnchanged ==
    ( /\ pc \in {"returned", "crashed"}
      /\ ValidReferences /\ ToleranceValid
      /\ uPointsInCurrentPath \in 0..2
      /\ errno = 0 ) =>
        /\ Succeeded
        /\ pointsInResultPath = uPointsInCurrentPath
        /\ Coordinates(ResultPoints) = Coordinates(entryPath)

\* C4: the result is the input taken at strictly increasing indices: each result
\* point is a copy of an input point, and each is copied from a later index than
\* the one before it.
C4_IncreasingSubsequence ==
    (Succeeded /\ uPointsInCurrentPath >= 0) =>
        /\ pointsInResultPath <= uPointsInCurrentPath
        /\ \A k \in 1..pointsInResultPath :
               /\ ResultPoints[k].src \in 0..(uPointsInCurrentPath - 1)
               /\ XY(ResultPoints[k]) = XY(entryPath[ResultPoints[k].src + 1])
               /\ k > 1 => ResultPoints[k - 1].src < ResultPoints[k].src

\* C4's case: a successful call that split a path at its point 1, kept that
\* split point (shared by the two subproblems) once and dropped point 2.
C4_Witness ==
    /\ Succeeded /\ ValidReferences /\ ToleranceValid
    /\ uPointsInCurrentPath >= 4
    /\ pointsInResultPath = 3
    /\ ResultPoints[1].src = 0
    /\ ResultPoints[2].src = 1
    /\ ResultPoints[3].src = 3

\* The nearest retained indices around index i of the entry path.
RetainedBelow(i) ==
    CHOOSE a \in RetainedIndices :
        a < i /\ \A r \in RetainedIndices : r < i => r <= a

RetainedAbove(i) ==
    CHOOSE b \in RetainedIndices :
        b > i /\ \A r \in RetainedIndices : r > i => r >= b

\* The metric's value for the discarded point i against the segment of the
\* result polyline that replaces it.
DeviationOfDiscarded(i) ==
    LET start == entryPath[RetainedBelow(i) + 1]
        end == entryPath[RetainedAbove(i) + 1]
        dDX == end.dX - start.dX
        dDY == end.dY - start.dY
    IN  CallMetric(deviationMetric, start, end, entryPath[i + 1],
                   dDX * dDX + dDY * dDY)

DiscardedIndices == (0..(uPointsInCurrentPath - 1)) \ RetainedIndices

SquaredTolerance == RatMul(dEpsilon, dEpsilon)

\* C5 as stated: after a successful call with a tolerance >= 0 every discarded
\* point's deviation from the segment between the nearest retained points
\* around it is below the squared tolerance.
C5_DiscardedWithinTolerance ==
    (Succeeded /\ ValidReferences /\ ToleranceValid /\ uPointsInCurrentPath >= 0) =>
        \A i \in DiscardedIndices :
            RatLess(DeviationOfDiscarded(i), SquaredTolerance)

\* C5 amended: every discarded point's deviation is below the squared tolerance
\* or is NaN, the value of the perpendicular-line metric on a segment whose two
\* end points coincide.
C5_DiscardedWithinToleranceOrNaN ==
    (Succeeded /\ ValidReferences /\ ToleranceValid /\ uPointsInCurrentPath >= 0) =>
        \A i \in DiscardedIndices :
            \/ RatLess(DeviationOfDiscarded(i), SquaredTolerance)
            \/ /\ IsNaN(DeviationOfDiscarded(i))
               /\ deviationMetric = "perpendicularDistance"
               /\ XY(entryPath[RetainedBelow(i) + 1])
                      = XY(entryPath[RetainedAbove(i) + 1])

\* C5's case: a successful call that discarded a point lying off the segment
\* that replaces it, at a deviation that is a number.
C5_Witness ==
    /\ Succeeded /\ ValidReferences /\ ToleranceValid /\ uPointsInCurrentPath >= 3
    /\ \E i \in DiscardedIndices :
           /\ RatLess(Rat(0, 1), DeviationOfDiscarded(i))
           /\ RatLess(DeviationOfDiscarded(i), SquaredTolerance)

\* C6: a successful call with the path itself as the result array gives the
\* count and the points that the call with a separate result array gave.
C6_InPlaceSameAsSeparate ==
    (Succeeded /\ InPlace) =>
        /\ pointsInResultPath = separateCount
        /\ \A k \in 1..pointsInResultPath : XY(mem.path[k]) = XY(mem.out[k])

\* C6's case: a successful in-place call that split the path and removed points
\* on both sides of a retained split point.
C6_Witness ==
    /\ Succeeded /\ InPlace /\ ValidReferences /\ ToleranceValid
    /\ uPointsInCurrentPath >= 4
    /\ separateCount = 3
    /\ pointsInResultPath = 3
    /\ mem.path[2].src = 2

\* C7: in a call on n >= 0 points with arrays of n elements (the other arguments
\* valid), every element read
\* or written has an index in 0..n-1 and no bulk copy has a negative length.
C7_AccessesInBounds ==
    (ValidReferences /\ ToleranceValid /\ uPointsInCurrentPath >= 0) =>
        /\ touched \subseteq 0..(uPointsInCurrentPath - 1)
        /\ \A len \in bulk : len >= 0

\* An allocation has failed in this call (malloc and realloc set errno then).
AllocationHasFailed == errno # 0

\* C8: once an allocation of the stack has failed, the call has returned
\* failure; it processes nothing further and never returns success.
C8_AllocationFailureFails ==
    AllocationHasFailed => (pc = "returned" /\ ret = FAILURE)

\* C8's case: the growth reallocation failed in the middle of the run, after
\* some of the result was already in place.
C8_Witness ==
    /\ AllocationHasFailed /\ ValidReferences /\ ToleranceValid
    /\ pc = "returned" /\ ret = FAILURE
    /\ iCallStackCapacity > COMPACT_PATH_CALL_STACK_UNIT
    /\ iNumSolvedPoints >= 1

\* C9: on every return of a call with valid arguments no block of the stack
\* remains allocated, and every block that was allocated has been released
\* exactly once.
C9_StackReleased ==
    (Returned /\ ValidReferences /\ ToleranceValid /\ uPointsInCurrentPath >= 0) =>
        /\ DOMAIN heap = {}
        /\ \A b \in 1..nAllocated :
               Cardinality({ k \in 1..Len(freed) : freed[k] = b }) = 1

\* A call that has to be rejected: a negative tolerance, a negative length or a
\* null argument.
InvalidArguments ==
    ~ValidReferences \/ ~ToleranceValid \/ uPointsInCurrentPath < 0

\* C10: a call with invalid arguments returns failure at once, before any
\* element is read or written and before any subproblem is evaluated.
C10_InvalidArgumentsRejected ==
    (InvalidArguments /\ pc # "entry") =>
        /\ pc = "returned" /\ ret = FAILURE
        /\ touched = {} /\ bulk = {}
        /\ subproblemResultCode = "none"

-----------------------------------------------------------------------------
(* properties of the result as a whole *)

\* The call has ended, one way or the other.
Ended == pc \in {"returned", "crashed"}

\* C11 as stated (for paths of at least one point): a call on the result of a
\* successful call, with the same tolerance >= 0 and metric and no allocation
\* failure, succeeds and returns that path unchanged.
C11_Idempotent ==
    ( /\ Ended /\ phase = "onResult"
      /\ ValidReferences /\ ToleranceValid
      /\ uPointsInCurrentPath >= 1
      /\ errno = 0 ) =>
        /\ Succeeded
        /\ pointsInResultPath = uPointsInCurrentPath
        /\ Coordinates(ResultPoints) = Coordinates(entryPath)

\* The same for tolerances > 0 only.
C11_IdempotentPositiveTolerance ==
    (dEpsilon.num > 0) => C11_Idempotent

\* C12: a successful call with a tolerance e2 on the path of a successful call
\* with a tolerance e1, 0 <= e1 <= e2, and the same metric, gives a count that
\* is no larger.
C12_Monotone ==
    (Succeeded /\ phase = "largerTolerance") =>
        pointsInResultPath <= separateCount

\* C12's case: the larger tolerance removed a point the smaller one kept, and
\* kept another one.
C12_Witness ==
    /\ Succeeded /\ phase = "largerTolerance" /\ ValidReferences
    /\ uPointsInCurrentPath = 4
    /\ separateCount = 4
    /\ pointsInResultPath = 3

\* The metric's value for point i of the entry path against the segment from
\* its first to its last point.
DeviationFromWhole(i) ==
    LET start == entryPath[1]
        end == entryPath[uPointsInCurrentPath]
        dDX == end.dX - start.dX
        dDY == end.dY - start.dY
    IN  CallMetric(deviationMetric, start, end, entryPath[i + 1],
                   dDX * dDX + dDY * dDY)

InteriorIndices == 1..(uPointsInCurrentPath - 2)

\* C13: when every interior point's deviation from the segment first-last is
\* below the squared tolerance, a successful call on n >= 3 points gives exactly
\* the first and the last point, count 2.
C13_WithinToleranceGivesEndpoints ==
    ( /\ Succeeded /\ ValidReferences /\ ToleranceValid
      /\ uPointsInCurrentPath >= 3
      /\ \A i \in InteriorIndices :
             RatLess(DeviationFromWhole(i), SquaredTolerance) ) =>
        /\ pointsInResultPath = 2
        /\ XY(ResultPoints[1]) = XY(entryPath[1])
        /\ XY(ResultPoints[2]) = XY(entryPath[uPointsInCurrentPath])

\* C13's case: four collinear points with distinct end points, the
\* perpendicular-line metric and a positive tolerance, compacted to two points.
C13_Witness ==
    /\ Succeeded /\ ValidReferences /\ phase = "first"
    /\ uPointsInCurrentPath = 4
    /\ deviationMetric = "perpendicularDistance"
    /\ dEpsilon.num > 0
    /\ \A k \in 1..4 : entryPath[k].dY = 0
    /\ XY(entryPath[1]) # XY(entryPath[4])
    /\ pointsInResultPath = 2

\* The first interior index whose deviation from the segment first-last is the
\* largest (defined when no deviation is NaN).
FirstMaxInterior ==
    CHOOSE i \in InteriorIndices :
        /\ \A j \in InteriorIndices :
               ~RatLess(DeviationFromWhole(i), DeviationFromWhole(j))
        /\ \A j \in InteriorIndices :
               j < i => RatLess(DeviationFromWhole(j), DeviationFromWhole(i))

\* The largest interior deviation is a number and reaches the squared tolerance.
OutlierPresent ==
    /\ uPointsInCurrentPath >= 3
    /\ \A i \in InteriorIndices : ~IsNaN(DeviationFromWhole(i))
    /\ ~RatLess(DeviationFromWhole(FirstMaxInterior), SquaredTolerance)

\* C14: after a successful call on n >= 3 points with a tolerance > 0, if the
\* largest interior deviation from the segment first-last is at least the
\* squared tolerance, the first interior point that has it is in the result.
C14_OutlierRetained ==
    ( /\ Succeeded /\ ValidReferences
      /\ dEpsilon.num > 0
      /\ OutlierPresent ) =>
        FirstMaxInterior \in RetainedIndices

\* C14's case: the outlier (point 1 or 2 of four) is kept while another interior
\* point is removed.
C14_Witness ==
    /\ Succeeded /\ ValidReferences /\ phase = "first"
    /\ dEpsilon.num > 0
    /\ uPointsInCurrentPath = 4
    /\ OutlierPresent
    /\ FirstMaxInterior \in RetainedIndices
    /\ pointsInResultPath = 3
    /\ XY(entryPath[FirstMaxInterior + 1]) = << 1, 1 >>

-----------------------------------------------------------------------------
(* properties of the driver loop *)

\* The metric's value for point i of the subproblem last popped, against the
\* segment from its first to its last point, in the memory as it is.
DeviationInCurrent(i) ==
    LET start == Load(mem, current.pPointArray, 0)
        end == Load(mem, current.pPointArray, current.uPointsInCurrentPath - 1)
        dDX == end.dX - start.dX
        dDY == end.dY - start.dY
    IN  CallMetric(deviationMetric, start, end, Load(mem, current.pPointArray, i),
                   dDX * dDX + dDY * dDY)

InteriorOfCurrent == 1..(current.uPointsInCurrentPath - 2)

\* The solver's last answer was Divide (the memory and current are then still
\* what the solver saw).
Divided == subproblemResultCode = "DIVIDE"

\* The solver's last answer was Solved or Linearize.
Resolved == subproblemResultCode \in {"SOLVED", "LINEARIZE"}

\* C15 as stated: whenever the solver has answered Divide, for a tolerance >= 0,
\* the split index is an interior index of the subproblem, no interior point
\* deviates more than the point at it, every interior point before it deviates
\* less, and the driver has not rejected it.
C15_SplitIndexIsFirstMaximum ==
    (Divided /\ ValidReferences /\ ToleranceValid) =>
        /\ iDivisionIndex \in InteriorOfCurrent
        /\ \A j \in InteriorOfCurrent :
               ~RatLess(DeviationInCurrent(iDivisionIndex), DeviationInCurrent(j))
        /\ \A j \in InteriorOfCurrent :
               j < iDivisionIndex =>
                   RatLess(DeviationInCurrent(j), DeviationInCurrent(iDivisionIndex))
        /\ ~(pc = "returned" /\ ret = FAILURE /\ errno = 0)

\* The same for tolerances > 0 only.
C15_SplitIndexPositiveTolerance ==
    (dEpsilon.num > 0) => C15_SplitIndexIsFirstMaximum

\* C16 as stated: whenever the solver has answered Divide with a split index
\* that is not an interior index 1..L-2 of the subproblem, the call has returned
\* failure.
C16_BadSplitRejected ==
    ( /\ Divided /\ ValidReferences /\ ToleranceValid
      /\ iDivisionIndex \notin InteriorOfCurrent ) =>
        (pc = "returned" /\ ret = FAILURE)

\* The call on top of the stack, the next one popped.
Top == callStack[iNumCallsInStack]

\* C17, the step its termination rests on: after a split, each of the two
\* subproblems pushed has fewer points than the subproblem they replace.
C17_SubproblemsShrink ==
    ( /\ pc = "loop" /\ Divided
      /\ ValidReferences /\ ToleranceValid /\ uPointsInCurrentPath >= 0 ) =>
        /\ Top.uPointsInCurrentPath < current.uPointsInCurrentPath
        /\ callStack[iNumCallsInStack - 1].uPointsInCurrentPath
               < current.uPointsInCurrentPath

\* The same for tolerances > 0 only.
C17_SubproblemsShrinkPositiveTolerance ==
    (dEpsilon.num > 0) => C17_SubproblemsShrink

\* The index of the entry path at which a pending call starts, and ends.
StartOf(call) == call.pPointArray.off

EndOf(call) == call.pPointArray.off + call.uPointsInCurrentPath - 1

\* The last point written to the result so far.
LastWritten == mem[pResultPointArray.arr][iNumSolvedPoints]

\* C18: at the start of every iteration of the loop of a call on n >= 1 points,
\* the pending calls from the top of the stack to its bottom are contiguous: the
\* top one starts at the index the last written result point was copied from,
\* each further one starts where the one above it ends, and the bottom one ends
\* at n - 1 (with no call pending, the last written point is point n - 1).
C18_StackCoversRemainder ==
    (pc = "loop" /\ ValidReferences /\ uPointsInCurrentPath >= 1) =>
        /\ \A k \in 2..iNumCallsInStack :
               StartOf(callStack[k - 1]) = EndOf(callStack[k])
        /\ iNumCallsInStack > 0 => EndOf(callStack[1]) = uPointsInCurrentPath - 1
        /\ iNumCallsInStack > 0 => StartOf(Top) = LastWritten.src
        /\ iNumCallsInStack = 0 => LastWritten.src = uPointsInCurrentPath - 1

\* C18's case: with a tolerance > 0, two calls pending after one subproblem has
\* been resolved and the next one split.
C18_Witness ==
    /\ pc = "loop" /\ ValidReferences /\ dEpsilon.num > 0
    /\ iNumCallsInStack = 2
    /\ iNumSolvedPoints = 2
    /\ StartOf(Top) = 1
    /\ StartOf(callStack[1]) = 2

\* The points a resolved subproblem leaves in its scratch space.
Survivors ==
    IF subproblemResultCode = "LINEARIZE" THEN 2 ELSE current.uPointsInCurrentPath

\* C19 as stated, for calls on n >= 1 points: after a split the left half is on
\* top of the stack and the right half below it; after a subproblem is resolved
\* the next one starts at a larger offset; and the step that resolves a
\* subproblem adds all of its surviving points but the first to the result.
C19_LeftFirstAscending ==
    /\ []( (pc = "loop" /\ ValidReferences /\ ToleranceValid
              /\ uPointsInCurrentPath >= 1) =>
             /\ Divided =>
                    /\ Top = FirstSubproblem(current, iDivisionIndex)
                    /\ callStack[iNumCallsInStack - 1]
                           = SecondSubproblem(current, iDivisionIndex)
             /\ (Resolved /\ iNumCallsInStack > 0) =>
                    StartOf(Top) > StartOf(current) )
    /\ [][ ( /\ pc = "loop" /\ pc' = "loop" /\ Resolved'
             /\ iNumCallsInStack' < iNumCallsInStack
             /\ ValidReferences /\ ToleranceValid
             /\ uPointsInCurrentPath >= 1 ) =>
               /\ iNumSolvedPoints' = iNumSolvedPoints + Survivors' - 1
               /\ LastWritten'.src = EndOf(current') ]_vars

\* The same with "larger or equal" for the offsets.
C19_LeftFirstNonDescending ==
    (pc = "loop" /\ ValidReferences /\ ToleranceValid
       /\ uPointsInCurrentPath >= 1 /\ Resolved /\ iNumCallsInStack > 0) =>
        StartOf(Top) >= StartOf(current)

\* C20: whenever a call is about to be popped, the number of points written to
\* the result is at most its offset + 1; and in a call in place every point of
\* every pending call still has the value it had at entry.
C20_WriteCursorBehindRead ==
    (pc = "loop" /\ iNumCallsInStack > 0 /\ ValidReferences) =>
        /\ iNumSolvedPoints <= StartOf(Top) + 1
        /\ InPlace =>
               \A k \in 1..iNumCallsInStack :
                   \A j \in StartOf(callStack[k])..EndOf(callStack[k]) :
                       XY(mem.path[j + 1]) = XY(entryPath[j + 1])

\* C20's case: in a call in place, a call pending whose offset is ahead of the
\* write cursor, after an element of the path has been overwritten.
C20_Witness ==
    /\ pc = "loop" /\ iNumCallsInStack > 0 /\ ValidReferences /\ ToleranceValid
    /\ InPlace
    /\ iNumSolvedPoints < StartOf(Top) + 1
    /\ \E j \in 1..Len(mem.path) : mem.path[j].src # j - 1

-----------------------------------------------------------------------------
(* properties of the stack *)

\* The entries the block pCallStackBase points to has room for (0: no block).
AllocatedCapacity ==
    IF pCallStackBase \in DOMAIN heap THEN heap[pCallStackBase] ELSE 0

\* C21: the loop is entered with a capacity of COMPACT_PATH_CALL_STACK_UNIT
\* entries; the capacity changes only by a push that finds the stack full, and
\* then by exactly one unit; while the call runs the block allocated has room for
\* the capacity, the entries number at most the capacity and all lie in the
\* block; and the number of entries is never negative (no pop of an empty stack).
C21_StackWithinCapacity ==
    /\ []( /\ iNumCallsInStack >= 0
           /\ Len(callStack) = iNumCallsInStack
           /\ pc = "loop" =>
                  /\ AllocatedCapacity = iCallStackCapacity
                  /\ iNumCallsInStack <= iCallStackCapacity
                  /\ iCallStackCapacity % COMPACT_PATH_CALL_STACK_UNIT = 0 )
    /\ [][ /\ (pc = "entry" /\ pc' = "loop") =>
                  iCallStackCapacity' = COMPACT_PATH_CALL_STACK_UNIT
           /\ (pc = "loop" /\ pc' = "loop") =>
                  \/ iCallStackCapacity' = iCallStackCapacity
                  \/ /\ iCallStackCapacity'
                            = iCallStackCapacity + COMPACT_PATH_CALL_STACK_UNIT
                     /\ iNumCallsInStack' > iCallStackCapacity
           /\ (pc = "loop" /\ iNumCallsInStack' < iNumCallsInStack) =>
                  iNumCallsInStack > 0 ]_vars

\* C21's case: the stack has grown by one unit and holds more entries than its
\* first capacity.
C21_Witness ==
    /\ pc = "loop" /\ ValidReferences /\ ToleranceValid
    /\ iCallStackCapacity = 2 * COMPACT_PATH_CALL_STACK_UNIT
    /\ iNumCallsInStack > COMPACT_PATH_CALL_STACK_UNIT
    /\ nAllocated = 2

-----------------------------------------------------------------------------
(* properties of the metrics *)

\* A point of a metric call's record as a DVector2D.
Vector(xy) == [dX |-> xy[1], dY |-> xy[2]]

\* The squared distance between two points.
SquareDistance(p, q) ==
    (p[1] - q[1]) * (p[1] - q[1]) + (p[2] - q[2]) * (p[2] - q[2])

\* The calls of shortestDistanceToSegment, and of perpendicularDistance, in the
\* last run of the solver, on segments whose end points differ.
SegmentCalls ==
    { c \in metricCalls :
        c.metric = "shortestDistanceToSegment" /\ c.start # c.end }

LineCalls ==
    { c \in metricCalls :
        c.metric = "perpendicularDistance" /\ c.start # c.end }

\* The orthogonal projection of c.mid onto the line through c.start and c.end
\* lies strictly between them: 0 < A.B < A.A.
ProjectionStrictlyBetween(c) ==
    LET dAdotB == DotAB(Vector(c.start), Vector(c.end), Vector(c.mid))
    IN  0 < dAdotB /\ dAdotB < SquareDistance(c.start, c.end)

\* The squared perpendicular distance of c.mid from the line through c.start and
\* c.end: the squared doubled triangle area over the squared base.
SquarePerpendicularDistance(c) ==
    LET cross == TwiceArea(Vector(c.start), Vector(c.end), Vector(c.mid))
    IN  Rat(cross * cross, SquareDistance(c.start, c.end))

\* C22 as stated: every call of shortestDistanceToSegment on a segment with
\* start # end leaves through the perpendicular formula exactly when the
\* projection of the point lies strictly between start and end.
C22_PerpendicularIffProjectionInside ==
    \A c \in SegmentCalls :
        (c.branch = "perpendicular") <=> ProjectionStrictlyBetween(c)

\* One direction holds: the perpendicular formula is used only for points whose
\* projection lies strictly between start and end.
C22_PerpendicularOnlyIfProjectionInside ==
    \A c \in SegmentCalls :
        (c.branch = "perpendicular") => ProjectionStrictlyBetween(c)

\* C23 as stated: every call of shortestDistanceToSegment that does not leave
\* through the perpendicular formula returns the squared distance from the
\* point to the nearer of start and end.
C23_NearerEndpointDistance ==
    \A c \in metricCalls :
        (c.metric = "shortestDistanceToSegment" /\ c.branch # "perpendicular") =>
            c.value = Rat(Min(SquareDistance(c.mid, c.start),
                              SquareDistance(c.mid, c.end)), 1)

\* C24 as stated: for every call of perpendicularDistance on a segment with
\* start # end and every tolerance >= 0, the value returned is below the squared
\* tolerance exactly when the squared perpendicular distance of the point from
\* the line is.
C24_PerpendicularOnSquaredScale ==
    ToleranceValid =>
        \A c \in LineCalls :
            RatLess(c.value, SquaredTolerance)
                <=> RatLess(SquarePerpendicularDistance(c), SquaredTolerance)

\* What the value returned is: a quarter of the squared perpendicular distance.
C24_QuarterOfSquaredDistance ==
    \A c \in LineCalls :
        /\ c.value.den = 4 * SquarePerpendicularDistance(c).den
        /\ c.value.num = SquarePerpendicularDistance(c).num

\* C28: no call of shortestDistanceToSegment leaves through the return of the
\* branch "closer to the start point", dAdotB < 0 comes with dBdotC > 0, and a
\* call that does not use the perpendicular formula returns the squared
\* distance from the point to end.
C28_StartBranchNeverTaken ==
    \A c \in metricCalls :
        c.metric = "shortestDistanceToSegment" =>
            /\ c.branch # "start"
            /\ DotAB(Vector(c.start), Vector(c.end), Vector(c.mid)) < 0 =>
                   DotBC(Vector(c.start), Vector(c.end), Vector(c.mid)) > 0
            /\ c.branch # "perpendicular" =>
                   c.value = Rat(SquareDistance(c.mid, c.end), 1)

\* C28's case: a call with the point behind start (dAdotB < 0), nearer to start
\* than to end, scored by its squared distance to end.
C28_Witness ==
    \E c \in SegmentCalls :
        /\ DotAB(Vector(c.start), Vector(c.end), Vector(c.mid)) < 0
        /\ SquareDistance(c.mid, c.start) < SquareDistance(c.mid, c.end)
        /\ c.branch = "end"
        /\ c.value = Rat(SquareDistance(c.mid, c.end), 1)

-----------------------------------------------------------------------------
(* PathCompacterRecursive.c *)

\* The recursive variant works on the memory, the static pCompacterLocation and,
\* in this model, a flag for a run that has died.  Each operator gives the set
\* of states a call can end in.

RECURSIVE compactPathRecursive(_, _, _, _, _)
\* compactPathRecursive(pPointArray, uPointsInCurrentPath, dEpsilon), with
\* currentDeviationMetric = metric.  Its scan and its test against the tolerance
\* are those of compactPathSubproblemSolver.  A split index read from the
\* unassigned iMaxPointIndex is used unchecked: outside 1..L-2 it makes the
\* function call itself on the same span for ever, or on elements outside the
\* array.
compactPathRecursive(st, p, L, dEps, metric) ==
    IF st.crashed THEN {st}
    ELSE IF L < 3
    THEN IF L > 0
         THEN {[st EXCEPT !.mem = memcpy(st.mem, st.loc, PtrAdd(p, 1), L - 1),
                          !.loc = PtrAdd(st.loc, L - 1)]}
         ELSE {st}
    ELSE LET dDX == Load(st.mem, p, L - 1).dX - Load(st.mem, p, 0).dX
             dDY == Load(st.mem, p, L - 1).dY - Load(st.mem, p, 0).dY
             dSquareSegLen == dDX * dDX + dDY * dDY
             scan == ScanInterior(st.mem, p, L, dSquareSegLen, metric, 1, ScanStart)
         IN  IF Linearizable(scan.dMax, dEps)
             THEN {[st EXCEPT !.mem = Store(st.mem, st.loc, 0, Load(st.mem, p, L - 1)),
                              !.loc = PtrAdd(st.loc, 1)]}
             ELSE UNION {
                      IF idx \in 1..(L - 2)
                      THEN UNION { compactPathRecursive(s1, PtrAdd(p, idx), L - idx,
                                                        dEps, metric) :
                                     s1 \in compactPathRecursive(st, p, idx + 1,
                                                                 dEps, metric) }
                      ELSE {[st EXCEPT !.crashed = TRUE]} :
                      idx \in ReadIndex(scan.assigned, scan.iMaxPointIndex) }

\* compactPath of PathCompacterRecursive.c on a path of n points, with a result
\* array of its own and valid pointers: the set of its outcomes, each with the
\* value returned, the count written and the points left in the result array.
RecursiveCompactPath(path, n, dEps, metric) ==
    LET m0 == [path |-> path, out |-> [k \in 1..Len(path) |-> Junk]]
        pPts == Ptr("path", 0)
        pRes == Ptr("out", 0)
        died == [ret |-> "none", count |-> StaleCount, points |-> << >>,
                 crashed |-> TRUE]
    IN  IF n < 0 \/ dEps.num < 0
        THEN {[ret |-> FAILURE, count |-> StaleCount, points |-> << >>,
               crashed |-> FALSE]}
        ELSE IF Len(path) = 0
        THEN \* *pResultPointArray = *pPointArray on arrays of no element, then
             \* pCompacterLocation = pResultPointArray + 1 and no copy
             { IF wild = "crash" THEN died
               ELSE [ret |-> SUCCESS, count |-> 1, points |-> << >>,
                     crashed |-> FALSE] : wild \in WildAccessOutcomes }
        ELSE LET st0 == [mem |-> Store(m0, pRes, 0, Load(m0, pPts, 0)),
                         loc |-> PtrAdd(pRes, 1),
                         crashed |-> FALSE]
             IN  { IF st.crashed THEN died
                   ELSE [ret |-> SUCCESS,
                         count |-> st.loc.off - pRes.off,
                         points |-> SubSeq(st.mem.out, 1, st.loc.off - pRes.off),
                         crashed |-> FALSE] :
                   st \in compactPathRecursive(st0, pPts, n, dEps, metric) }

\* The outcomes of the recursive variant on the arguments of the call in
\* progress.
RecursiveOutcomes ==
    RecursiveCompactPath(entryPath, uPointsInCurrentPath, dEpsilon, deviationMetric)

\* C25 as stated: when the iterative compactPath, called with valid arguments,
\* a tolerance >= 0 and a result array of its own, has ended without an
\* allocation failure, it has returned success, and the recursive compactPath on
\* the same arguments returns success with the same count and the same points.
C25_RecursiveEquivalent ==
    ( /\ Ended /\ phase = "first"
      /\ ValidReferences /\ ToleranceValid
      /\ uPointsInCurrentPath >= 0
      /\ errno = 0 ) =>
        /\ Succeeded
        /\ \A o \in RecursiveOutcomes :
               /\ ~o.crashed
               /\ o.ret = SUCCESS
               /\ o.count = pointsInResultPath
               /\ Coordinates(o.points) = Coordinates(ResultPoints)

\* The same for paths of at least one point and tolerances > 0 only.
C25_RecursiveEquivalentPositiveTolerance ==
    (dEpsilon.num > 0 /\ uPointsInCurrentPath >= 1) => C25_RecursiveEquivalent

-----------------------------------------------------------------------------
(* properties of the run as a whole *)

\* C26 as stated: in a call on n >= 2 points with a tolerance >= 0, each of the
\* two subproblems pushed by a split has at least 2 points and fewer points than
\* the subproblem split, the stack never holds more than n - 1 calls, and the
\* solver is run at most 2n - 3 times.
C26_BoundedWork ==
    ( /\ pc \in {"loop", "returned"}
      /\ ValidReferences /\ ToleranceValid
      /\ uPointsInCurrentPath >= 2 ) =>
        /\ (pc = "loop" /\ Divided) =>
               \A call \in {Top, callStack[iNumCallsInStack - 1]} :
                   /\ call.uPointsInCurrentPath >= 2
                   /\ call.uPointsInCurrentPath < current.uPointsInCurrentPath
        /\ iNumCallsInStack <= uPointsInCurrentPath - 1
        /\ nSolverCalls <= 2 * uPointsInCurrentPath - 3

\* The same for tolerances > 0 only.
C26_BoundedWorkPositiveTolerance ==
    (dEpsilon.num > 0) => C26_BoundedWork

\* C27: the caller's count holds the value it had at the call's entry unless
\* the call has returned success, with the stack empty; it then holds the
\* number of points resolved.  In particular it is unchanged on every failure
\* return.
C27_CountWrittenOnSuccessOnly ==
    /\ (pointsInResultPath # StaleCount) =>
           /\ Succeeded
           /\ iNumCallsInStack = 0
           /\ pointsInResultPath = iNumSolvedPoints
    /\ (Returned /\ ret = FAILURE) => pointsInResultPath = StaleCount

\* C27's case: a failure return (here of a split index rejected, or of a push
\* that could not grow the stack) after part of the result was written.
C27_Witness ==
    /\ Returned /\ ret = FAILURE
    /\ ValidReferences /\ ToleranceValid
    /\ iNumSolvedPoints >= 2
    /\ mem.out[2] # Junk
    /\ pointsInResultPath = StaleCount

====
